---------------------------- MODULE Spec2Model ----------------------------
(***************************************************************************)
(* lcelib/nets/Randomizer.H: degree-preserving randomization of a          *)
(* symmetric weighted network.                                             *)
(*                                                                         *)
(*   confModelSimple     MCMC edge-pair swaps keeping the graph simple     *)
(*   switchLinkPairEnds  one swap guarded by two bounded Dijkstrator runs  *)
(*   randomize           rounds of numLinks swaps with backup and rollback *)
(*                                                                         *)
(* A network is a function net[u][v] giving the weight of the edge u-v,    *)
(* 0 (NetType::EdgeData()) meaning "no edge".  Node ids are 0..size-1.     *)
(***************************************************************************)
EXTENDS Integers, Sequences, FiniteSets, TLC

\* ------------------------------------------------------------------ bounds
\* the largest network given to confModelSimple, switchLinkPairEnds, randomize
MaxConfNodes == 5
MaxSwitchNodes == 6
MaxRandNodes == 6
MaxRepeats == 2
MaxTries == 2
MaxRounds == 2
\* randomize is given up to MaxRounds rounds on networks of at most this size,
\* and at most one round on larger ones
SmallNodes == 4
\* largest network switchLinkPairEnds is followed on until it returns
MaxLiveNodes == 5

\* --------------------------------------------------- the network container
Nodes(sz) == 0 .. (sz - 1)

EmptyNet(sz) == [u \in Nodes(sz) |-> [v \in Nodes(sz) |-> 0]]

\* theNet(u)[v]: const lookup, 0 when the edge is absent
Edge(g, u, v) == g[u][v]

\* theNet[u][v] = w on a symmetric net: both directions, w = 0 removes the edge
SetEdge(g, u, v, w) == [g EXCEPT ![u][v] = w, ![v][u] = w]

Nbrs(g, u) == {v \in DOMAIN g : g[u][v] # 0}

\* theNet(u).size()
Degree(g, u) == Cardinality(Nbrs(g, u))

EdgeSet(g) == {e \in (DOMAIN g) \X (DOMAIN g) : e[1] < e[2] /\ g[e[1]][e[2]] # 0}

numberOfEdges(g) == Cardinality(EdgeSet(g))

RECURSIVE Grow(_, _)
Grow(g, S) == LET T == S \cup UNION {Nbrs(g, u) : u \in S}
              IN  IF T = S THEN S ELSE Grow(g, T)

\* the nodes reachable from seed
Reach(g, seed) == Grow(g, {seed})

ConnectivityCheck(g) == Reach(g, 0) = DOMAIN g

\* ---------------------------------------------------------- input networks
\* weight of the input edge u-v: 1 on an unweighted net, else distinct per edge
InWeight(sz, u, v, weighted) ==
    IF weighted THEN 1 + (IF u < v THEN u * sz + v ELSE v * sz + u) ELSE 1

NetOf(sz, E, weighted) ==
    [u \in Nodes(sz) |-> [v \in Nodes(sz) |->
        IF <<u, v>> \in E \/ <<v, u>> \in E THEN InWeight(sz, u, v, weighted) ELSE 0]]

PathEdges(sz) == {<<u, u + 1>> : u \in 0 .. (sz - 2)}
CycleEdges(sz) == PathEdges(sz) \cup {<<sz - 1, 0>>}
StarEdges(sz, c) == {<<c, v>> : v \in Nodes(sz) \ {c}}
\* a triangle 0-1-2 with the tail 2-3-...-(sz-1)
TadpoleEdges(sz) == {<<0, 1>>, <<1, 2>>, <<2, 0>>} \cup {<<u, u + 1>> : u \in 2 .. (sz - 2)}
\* two paths 0-1-..  and  ..-(sz-1), not joined (sz >= 4)
TwoPathEdges(sz) == PathEdges(sz) \ {<<1, 2>>}

IsStar(g) == \E c \in DOMAIN g : \A u, v \in DOMAIN g :
                 (g[u][v] # 0) <=> (u # v /\ (u = c \/ v = c))

DegreesEqual(g, h) == \A u \in DOMAIN g : Degree(g, u) = Degree(h, u)

\* every simple network with at least one edge that confModelSimple is run on
ConfInputs ==
    UNION {{NetOf(sz, PathEdges(sz), w), NetOf(sz, CycleEdges(sz), w)}
           \cup {NetOf(sz, StarEdges(sz, c), w) : c \in Nodes(sz)}
           \cup (IF sz >= 4 THEN {NetOf(sz, TadpoleEdges(sz), w), NetOf(sz, TwoPathEdges(sz), w)}
                 ELSE {})
           : <<sz, w>> \in (3 .. MaxConfNodes) \X BOOLEAN}

\* ------------------------------------------------------------------- state
VARIABLES
    theNet,             \* the network being randomized
    pc,                 \* position in the running function
    \* confModelSimple
    edgeList, repeats, round, successfullRounds,
    edgeIndex1, edgeIndex2, edge1, edge2, order,
    \* switchLinkPairEnds
    limit, i, j, m, n, tries, expectConnected, paths1, paths2, steps,
    \* randomize (its loop counters i and j are roundIdx and linkIdx)
    rounds, roundIdx, linkIdx, numLinks, backupNet, disconnectionFound,
    \* switchConnections (its i and j are those of switchLinkPairEnds)
    tmp_nodes,          \* the stored edges of i: node -> weight
    kLeft,              \* the nodes the running loop has yet to visit
    \* history
    inNet,              \* the network at entry
    inLimit,            \* the limit at entry
    preNet,             \* the network before the swap being written
    mutating            \* attempts so far that changed the network (in randomize:
                        \* passes since the last backup or restore that did)

confVars == <<edgeList, repeats, round, successfullRounds,
              edgeIndex1, edgeIndex2, edge1, edge2, order>>
switchVars == <<limit, i, j, m, n, tries, expectConnected, paths1, paths2, steps>>
randVars == <<rounds, roundIdx, linkIdx, numLinks, backupNet, disconnectionFound>>
histVars == <<inNet, inLimit, preNet, mutating>>
connVars == <<tmp_nodes, kLeft>>
vars == <<theNet, pc, confVars, switchVars, randVars, histVars, connVars>>

NoEdge == <<-1, -1>>
NoDraw == 0 - 1
NoProbe == [seed |-> NoDraw, left |-> 0, done |-> FALSE]

\* the locals of a function that is not running
ConfIdle ==
    /\ edgeList = <<>> /\ repeats = 0 /\ round = 0 /\ successfullRounds = 0
    /\ edgeIndex1 = NoDraw /\ edgeIndex2 = NoDraw
    /\ edge1 = NoEdge /\ edge2 = NoEdge /\ order = NoDraw

SwitchIdle ==
    /\ limit = 0 /\ i = NoDraw /\ j = NoDraw /\ m = NoDraw /\ n = NoDraw
    /\ tries = 0 /\ expectConnected = FALSE
    /\ paths1 = NoProbe /\ paths2 = NoProbe /\ steps = 0

RandIdle ==
    /\ rounds = 0 /\ roundIdx = 0 /\ linkIdx = 0 /\ numLinks = 0
    /\ backupNet = <<>> /\ disconnectionFound = FALSE

ConnIdle == tmp_nodes = <<>> /\ kLeft = {}

\* =========================================================== confModelSimple
RECURSIVE SetToSeq(_)
\* the elements of a set of pairs in ascending order
SetToSeq(S) ==
    IF S = {} THEN <<>>
    ELSE LET lo == CHOOSE e \in S : \A f \in S :
                       e[1] < f[1] \/ (e[1] = f[1] /\ e[2] <= f[2])
         IN  <<lo>> \o SetToSeq(S \ {lo})

\* lines 131-135: every edge once, smaller id first, node by node
BuildEdgeList(g) == SetToSeq(EdgeSet(g))

\* the test of lines 149-152 with its second comparison left out
NoSharedNodeLax(a, b) ==
    a[1] # b[1] /\ a[2] # b[1] /\ a[2] # b[2]

\* lines 149-152: the two edges do not share a node
NoSharedNode(a, b) ==
    a[1] # b[1] /\ a[1] # b[2] /\ a[2] # b[1] /\ a[2] # b[2]

\* lines 155-159: generator.next(2) == 0 swaps the ends of edge1
FlipEdge(e, coin) == IF coin = 0 THEN <<e[2], e[1]>> ELSE e

\* the test of lines 163-164 looking at the first candidate only
CandidatesFreeFirstOnly(g, a, b) == Edge(g, a[1], b[2]) = 0

\* lines 163-164: neither candidate edge exists
CandidatesFree(g, a, b) == Edge(g, a[1], b[2]) = 0 /\ Edge(g, a[2], b[1]) = 0

\* lines 168-169 without line 170: the second slot keeps the old edge
UpdateEdgeListFirstSlot(el, x1, x2, a, b) ==
    [el EXCEPT ![x1 + 1] = <<a[1], b[2]>>]

\* lines 168-170: the two drawn slots now hold the two new edges
UpdateEdgeList(el, x1, x2, a, b) ==
    [el EXCEPT ![x1 + 1] = <<a[1], b[2]>>, ![x2 + 1] = <<el[x2 + 1][1], a[2]>>]

\* lines 174 / 177: the first new edge
AddFirst(g, a, b, ord) ==
    SetEdge(g, a[1], b[2], IF ord = 0 THEN Edge(g, a[1], a[2]) ELSE Edge(g, b[1], b[2]))

\* lines 175 / 178 giving the second new edge the weight the first one got
AddSecondSameWeight(g, a, b, ord) ==
    SetEdge(g, a[2], b[1], IF ord = 0 THEN Edge(g, a[1], a[2]) ELSE Edge(g, b[1], b[2]))

\* lines 175 / 178: the second new edge
AddSecond(g, a, b, ord) ==
    SetEdge(g, a[2], b[1], IF ord = 0 THEN Edge(g, b[1], b[2]) ELSE Edge(g, a[1], a[2]))

\* line 181
RemoveFirst(g, a, b) == SetEdge(g, a[1], a[2], 0)

\* line 182 zeroing the new edge instead of the old one
RemoveSecondWrongEdge(g, a, b) == SetEdge(g, a[2], b[1], 0)

\* line 182
RemoveSecond(g, a, b) == SetEdge(g, b[1], b[2], 0)

ConfInit ==
    /\ theNet \in ConfInputs
    /\ repeats \in 0 .. MaxRepeats
    /\ edgeList = BuildEdgeList(theNet)
    /\ round = 0
    /\ successfullRounds = 0
    /\ edgeIndex1 = NoDraw /\ edgeIndex2 = NoDraw
    /\ edge1 = NoEdge /\ edge2 = NoEdge /\ order = NoDraw
    /\ inNet = theNet /\ inLimit = 0 /\ preNet = theNet /\ mutating = 0
    /\ pc = "attempt"
    /\ SwitchIdle /\ RandIdle /\ ConnIdle

\* a rejected attempt that draws again, without ++round, when the two indices
\* are equal
ConfRejectedRedraw(x1, x2, a, b) ==
    /\ edgeIndex1' = x1 /\ edgeIndex2' = x2
    /\ edge1' = a /\ edge2' = b /\ order' = NoDraw
    /\ round' = IF x1 = x2 THEN round ELSE round + 1
    /\ UNCHANGED <<theNet, pc, edgeList, repeats, successfullRounds, histVars, switchVars, randVars, connVars>>

\* an attempt that ends without touching the network: the next round begins
ConfRejected(x1, x2, a, b) ==
    /\ edgeIndex1' = x1 /\ edgeIndex2' = x2
    /\ edge1' = a /\ edge2' = b /\ order' = NoDraw
    /\ round' = round + 1
    /\ UNCHANGED <<theNet, pc, edgeList, repeats, successfullRounds, histVars, switchVars, randVars, connVars>>

\* line 145 fails: the same index was drawn twice
ConfSameIndex ==
    /\ pc = "attempt" /\ round < repeats
    /\ \E x1 \in 0 .. (Len(edgeList) - 1) :
          ConfRejected(x1, x1, NoEdge, NoEdge)

\* lines 149-152 fail: the edges share a node
ConfSharedNode ==
    /\ pc = "attempt" /\ round < repeats
    /\ \E x1, x2 \in 0 .. (Len(edgeList) - 1) :
          /\ x1 # x2
          /\ ~NoSharedNode(edgeList[x1 + 1], edgeList[x2 + 1])
          /\ ConfRejected(x1, x2, edgeList[x1 + 1], edgeList[x2 + 1])

\* lines 163-164 fail: a candidate edge exists already
ConfExists ==
    /\ pc = "attempt" /\ round < repeats
    /\ \E x1, x2 \in 0 .. (Len(edgeList) - 1), coin \in 0 .. 1 :
          LET a == FlipEdge(edgeList[x1 + 1], coin)
              b == edgeList[x2 + 1]
          IN  /\ x1 # x2
              /\ NoSharedNode(edgeList[x1 + 1], b)
              /\ ~CandidatesFree(theNet, a, b)
              /\ ConfRejected(x1, x2, a, b)

\* lines 165-173: the swap is accepted, the list updated, the order drawn
ConfAccept ==
    /\ pc = "attempt" /\ round < repeats
    /\ \E x1, x2 \in 0 .. (Len(edgeList) - 1), coin \in 0 .. 1, ord \in 0 .. 1 :
          LET a == FlipEdge(edgeList[x1 + 1], coin)
              b == edgeList[x2 + 1]
          IN  /\ x1 # x2
              /\ NoSharedNode(edgeList[x1 + 1], b)
              /\ CandidatesFree(theNet, a, b)
              /\ edgeIndex1' = x1 /\ edgeIndex2' = x2
              /\ edge1' = a /\ edge2' = b /\ order' = ord
              /\ successfullRounds' = successfullRounds + 1
              /\ edgeList' = UpdateEdgeList(edgeList, x1, x2, a, b)
    /\ preNet' = theNet
    /\ pc' = "add1"
    /\ UNCHANGED <<theNet, repeats, round, inNet, inLimit, mutating, switchVars, randVars, connVars>>

ConfAdd1 ==
    /\ pc = "add1"
    /\ theNet' = AddFirst(theNet, edge1, edge2, order)
    /\ pc' = "add2"
    /\ UNCHANGED <<confVars, histVars, switchVars, randVars, connVars>>

ConfAdd2 ==
    /\ pc = "add2"
    /\ theNet' = AddSecond(theNet, edge1, edge2, order)
    /\ pc' = "remove1"
    /\ UNCHANGED <<confVars, histVars, switchVars, randVars, connVars>>

ConfRemove1 ==
    /\ pc = "remove1"
    /\ theNet' = RemoveFirst(theNet, edge1, edge2)
    /\ pc' = "remove2"
    /\ UNCHANGED <<confVars, histVars, switchVars, randVars, connVars>>

ConfRemove2 ==
    /\ pc = "remove2"
    /\ theNet' = RemoveSecond(theNet, edge1, edge2)
    /\ round' = round + 1
    /\ mutating' = mutating + (IF theNet' # preNet THEN 1 ELSE 0)
    /\ pc' = "attempt"
    /\ UNCHANGED <<edgeList, repeats, successfullRounds,
                   edgeIndex1, edgeIndex2, edge1, edge2, order, inNet, inLimit, preNet, switchVars, randVars, connVars>>

\* line 192
ConfReturn ==
    /\ pc = "attempt" /\ ~(round < repeats)
    /\ pc' = "returned"
    /\ UNCHANGED <<theNet, confVars, histVars, switchVars, randVars, connVars>>

ConfNext ==
    \/ ConfSameIndex \/ ConfSharedNode \/ ConfExists \/ ConfAccept
    \/ ConfAdd1 \/ ConfAdd2 \/ ConfRemove1 \/ ConfRemove2 \/ ConfReturn

SpecConf == ConfInit /\ [][ConfNext]_vars

\* ======================================================== switchLinkPairEnds
\* the connected networks switchLinkPairEnds and randomize are run on
SwitchInputs ==
    UNION {{NetOf(sz, PathEdges(sz), w), NetOf(sz, CycleEdges(sz), w)}
           \cup {NetOf(sz, StarEdges(sz, c), w) : c \in Nodes(sz)}
           \cup (IF sz >= 4 THEN {NetOf(sz, TadpoleEdges(sz), w)} ELSE {})
           : <<sz, w>> \in (3 .. MaxSwitchNodes) \X {TRUE}}

netSize == Cardinality(DOMAIN theNet)

\* line 275
LimitAssert(sz, lim) == lim <= sz /\ 0 < lim

\* the condition of lines 285-287 without its test m == j
DrawAgainLax(g, a, b, c, d) ==
    \/ a = b \/ c = d \/ d = a
    \/ Edge(g, a, d) # 0
    \/ Edge(g, b, c) # 0

\* lines 285-287: the condition of the inner do-while, true when the draw is redone
DrawAgain(g, a, b, c, d) ==
    \/ a = b \/ c = d \/ c = b \/ d = a
    \/ Edge(g, a, d) # 0
    \/ Edge(g, b, c) # 0

\* lines 290-291 looking at the ends of the drawn edges i-m and j-n instead of
\* the ends of the new edges i-n and j-m
CertainBreakOldEdges(g, a, b, c, d) ==
    \/ (Degree(g, a) = 1 /\ Degree(g, c) = 1)
    \/ (Degree(g, b) = 1 /\ Degree(g, d) = 1)

\* lines 290-291: the switch would certainly cut off a pair of nodes
CertainBreak(g, a, b, c, d) ==
    \/ (Degree(g, a) = 1 /\ Degree(g, d) = 1)
    \/ (Degree(g, b) = 1 /\ Degree(g, c) = 1)

\* line 298
Switch1(g, a, b, c, d) == SetEdge(g, a, d, Edge(g, a, c))
\* line 299
Switch2(g, a, b, c, d) == SetEdge(g, b, c, Edge(g, b, d))
\* line 300
Switch3(g, a, b, c, d) == SetEdge(g, a, c, 0)
\* line 301 zeroing the new edge j-m instead of the old edge j-n
Switch4WrongEdge(g, a, b, c, d) == SetEdge(g, b, c, 0)

\* line 301
Switch4(g, a, b, c, d) == SetEdge(g, b, d, 0)

\* line 321
Reverse1(g, a, b, c, d) == SetEdge(g, a, c, Edge(g, a, d))
\* line 322 taking the weight from the edge i-m that line 321 has just restored
Reverse2WrongWeight(g, a, b, c, d) == SetEdge(g, b, d, Edge(g, a, c))

\* line 322
Reverse2(g, a, b, c, d) == SetEdge(g, b, d, Edge(g, b, c))
\* line 323 zeroing the restored edge i-m instead of the new edge i-n
Reverse3WrongEdge(g, a, b, c, d) == SetEdge(g, a, c, 0)

\* line 323
Reverse3(g, a, b, c, d) == SetEdge(g, a, d, 0)
\* line 324
Reverse4(g, a, b, c, d) == SetEdge(g, b, c, 0)

\* Dijkstrator<NetType>(net, start): the constructor finds the start node; left
\* counts the nodes of its component that are still to be found
Dijkstrator(g, start) ==
    [seed |-> start, left |-> Cardinality(Reach(g, start)) - 1, done |-> FALSE]

\* ++paths: finds one more node of the start node's component, or, when none is
\* left, becomes finished
ProbeInc(p) ==
    IF p.left > 0
    THEN [p EXCEPT !.left = @ - 1]
    ELSE [p EXCEPT !.done = TRUE]

finished(p) == p.done

\* line 308: the condition of the lockstep loop
ProbeOn(p1, p2, st, lim) == ~finished(p1) /\ ~finished(p2) /\ st < lim

\* line 316: a small disconnected subnet is found
ProbeFailed(p1, p2) == finished(p1) \/ finished(p2)

SwitchInit ==
    /\ theNet \in SwitchInputs
    /\ limit \in 1 .. Cardinality(DOMAIN theNet)
    /\ LimitAssert(Cardinality(DOMAIN theNet), limit)
    /\ i = NoDraw /\ j = NoDraw /\ m = NoDraw /\ n = NoDraw
    /\ tries = 0 /\ expectConnected = FALSE
    /\ paths1 = NoProbe /\ paths2 = NoProbe /\ steps = 0
    /\ inNet = theNet /\ inLimit = limit /\ preNet = theNet /\ mutating = 0
    /\ pc = "top"
    /\ ConfIdle /\ RandIdle /\ ConnIdle

\* line 279
SwTop ==
    /\ pc = "top" /\ tries < MaxTries
    /\ tries' = tries + 1
    /\ pc' = "draw"
    /\ UNCHANGED <<theNet, limit, i, j, m, n, expectConnected, paths1, paths2, steps,
                   histVars, confVars, randVars, connVars>>

\* lines 280-287, a draw the inner loop throws away
SwDrawAgain ==
    /\ pc = "draw"
    /\ \E a, b \in DOMAIN theNet :
          \E c \in Nbrs(theNet, a), d \in Nbrs(theNet, b) :
              /\ DrawAgain(theNet, a, b, c, d)
              /\ i' = a /\ j' = b /\ m' = c /\ n' = d
    /\ UNCHANGED <<theNet, pc, limit, tries, expectConnected, paths1, paths2, steps,
                   histVars, confVars, randVars, connVars>>

\* lines 280-287, a draw that leaves the inner loop
SwDrawLegal ==
    /\ pc = "draw"
    /\ \E a, b \in DOMAIN theNet :
          \E c \in Nbrs(theNet, a), d \in Nbrs(theNet, b) :
              /\ ~DrawAgain(theNet, a, b, c, d)
              /\ i' = a /\ j' = b /\ m' = c /\ n' = d
    /\ pc' = "test"
    /\ UNCHANGED <<theNet, limit, tries, expectConnected, paths1, paths2, steps,
                   histVars, confVars, randVars, connVars>>

\* lines 290-293
SwCertainBreak ==
    /\ pc = "test"
    /\ CertainBreak(theNet, i, j, m, n)
    /\ expectConnected' = FALSE
    /\ pc' = "while"
    /\ UNCHANGED <<theNet, limit, i, j, m, n, tries, paths1, paths2, steps,
                   histVars, confVars, randVars, connVars>>

\* line 298
SwAdd1 ==
    /\ pc = "test"
    /\ ~CertainBreak(theNet, i, j, m, n)
    /\ theNet' = Switch1(theNet, i, j, m, n)
    /\ preNet' = theNet
    /\ pc' = "add2"
    /\ UNCHANGED <<limit, i, j, m, n, tries, expectConnected, paths1, paths2, steps,
                   inNet, inLimit, mutating, confVars, randVars, connVars>>

\* line 299
SwAdd2 ==
    /\ pc = "add2"
    /\ theNet' = Switch2(theNet, i, j, m, n)
    /\ pc' = "remove1"
    /\ UNCHANGED <<switchVars, histVars, confVars, randVars, connVars>>

\* line 300
SwRemove1 ==
    /\ pc = "remove1"
    /\ theNet' = Switch3(theNet, i, j, m, n)
    /\ pc' = "remove2"
    /\ UNCHANGED <<switchVars, histVars, confVars, randVars, connVars>>

\* lines 301-307
SwRemove2 ==
    /\ pc = "remove2"
    /\ theNet' = Switch4(theNet, i, j, m, n)
    /\ expectConnected' = TRUE
    /\ paths1' = Dijkstrator(theNet', i)
    /\ paths2' = Dijkstrator(theNet', j)
    /\ steps' = 0
    /\ pc' = "probe"
    /\ UNCHANGED <<limit, i, j, m, n, tries, histVars, confVars, randVars, connVars>>

\* lines 308-312
SwProbeStep ==
    /\ pc = "probe"
    /\ ProbeOn(paths1, paths2, steps, limit)
    /\ paths1' = ProbeInc(paths1)
    /\ paths2' = ProbeInc(paths2)
    /\ steps' = steps + 1
    /\ UNCHANGED <<theNet, pc, limit, i, j, m, n, tries, expectConnected,
                   histVars, confVars, randVars, connVars>>

\* lines 315-319, no probe finished: the switch stays
SwKeep ==
    /\ pc = "probe"
    /\ ~ProbeOn(paths1, paths2, steps, limit)
    /\ ~ProbeFailed(paths1, paths2)
    /\ expectConnected' = TRUE
    /\ mutating' = mutating + 1
    /\ pc' = "while"
    /\ UNCHANGED <<theNet, limit, i, j, m, n, tries, paths1, paths2, steps,
                   inNet, inLimit, preNet, confVars, randVars, connVars>>

\* lines 315-321, a probe finished: the reversal starts
SwReverse1 ==
    /\ pc = "probe"
    /\ ~ProbeOn(paths1, paths2, steps, limit)
    /\ ProbeFailed(paths1, paths2)
    /\ expectConnected' = FALSE
    /\ theNet' = Reverse1(theNet, i, j, m, n)
    /\ pc' = "reverse2"
    /\ UNCHANGED <<limit, i, j, m, n, tries, paths1, paths2, steps,
                   histVars, confVars, randVars, connVars>>

\* line 322
SwReverse2 ==
    /\ pc = "reverse2"
    /\ theNet' = Reverse2(theNet, i, j, m, n)
    /\ pc' = "reverse3"
    /\ UNCHANGED <<switchVars, histVars, confVars, randVars, connVars>>

\* line 323
SwReverse3 ==
    /\ pc = "reverse3"
    /\ theNet' = Reverse3(theNet, i, j, m, n)
    /\ pc' = "reverse4"
    /\ UNCHANGED <<switchVars, histVars, confVars, randVars, connVars>>

\* line 324
SwReverse4 ==
    /\ pc = "reverse4"
    /\ theNet' = Reverse4(theNet, i, j, m, n)
    /\ pc' = "while"
    /\ UNCHANGED <<switchVars, histVars, confVars, randVars, connVars>>

\* lines 326-328, the pass failed: once more (the probes and steps are locals of
\* the block that ends at line 326)
SwAgain ==
    /\ pc = "while" /\ ~expectConnected
    /\ paths1' = NoProbe /\ paths2' = NoProbe /\ steps' = 0
    /\ pc' = "top"
    /\ UNCHANGED <<theNet, limit, i, j, m, n, tries, expectConnected,
                   histVars, confVars, randVars, connVars>>

\* lines 326-330
SwReturn ==
    /\ pc = "while" /\ expectConnected
    /\ paths1' = NoProbe /\ paths2' = NoProbe /\ steps' = 0
    /\ pc' = "returned"
    /\ UNCHANGED <<theNet, limit, i, j, m, n, tries, expectConnected,
                   histVars, confVars, randVars, connVars>>

SwitchNext ==
    \/ SwTop \/ SwDrawAgain \/ SwDrawLegal \/ SwCertainBreak
    \/ SwAdd1 \/ SwAdd2 \/ SwRemove1 \/ SwRemove2
    \/ SwProbeStep \/ SwKeep
    \/ SwReverse1 \/ SwReverse2 \/ SwReverse3 \/ SwReverse4
    \/ SwAgain \/ SwReturn

SpecSwitch == SwitchInit /\ [][SwitchNext]_vars

\* the call keeps running: it never stops before it returns, and a draw that
\* leaves the inner loop of lines 280-287 is eventually made whenever such a
\* draw stays possible (the generator does not avoid it for ever)
SpecSwitchFair ==
    /\ SpecSwitch
    /\ WF_vars(SwitchNext)
    /\ SF_vars(SwDrawLegal \/ SwCertainBreak)

\* ================================================================== randomize
\* the four writes of lines 298-301
Switched(g, a, b, c, d) ==
    Switch4(Switch3(Switch2(Switch1(g, a, b, c, d), a, b, c, d), a, b, c, d), a, b, c, d)

\* the four writes of lines 321-324
Reversed(g, a, b, c, d) ==
    Reverse4(Reverse3(Reverse2(Reverse1(g, a, b, c, d), a, b, c, d), a, b, c, d), a, b, c, d)

RECURSIVE ProbeLoop(_, _, _, _)
\* lines 307-312: the two probes after the lockstep loop
ProbeLoop(p1, p2, st, lim) ==
    IF ProbeOn(p1, p2, st, lim)
    THEN ProbeLoop(ProbeInc(p1), ProbeInc(p2), st + 1, lim)
    ELSE <<p1, p2>>

\* lines 290-326: one pass of the outer loop on the draw a, b, c, d (i, j, m, n)
\* that left the inner loop
Attempt(g, lim, a, b, c, d) ==
    IF CertainBreak(g, a, b, c, d)
    THEN [net |-> g, expectConnected |-> FALSE]
    ELSE LET h == Switched(g, a, b, c, d)
             ps == ProbeLoop(Dijkstrator(h, a), Dijkstrator(h, b), 0, lim)
         IN  IF ProbeFailed(ps[1], ps[2])
             THEN [net |-> Reversed(h, a, b, c, d), expectConnected |-> FALSE]
             ELSE [net |-> h, expectConnected |-> TRUE]

\* line 279 once tries has reached MaxTries: the loop goes on, and tries, which
\* no branch reads, stands from here on for MaxTries or more
SwTopMore ==
    /\ pc = "top" /\ tries >= MaxTries
    /\ pc' = "draw"
    /\ UNCHANGED <<theNet, limit, i, j, m, n, tries, expectConnected, paths1, paths2, steps,
                   histVars, confVars, randVars, connVars>>

\* lines 280-287: the inner loop can be left by a draw whose pass will end with
\* the switch kept (lines 290-326)
KeptDrawPossible ==
    /\ pc = "draw"
    /\ \E a, b \in DOMAIN theNet :
          \E c \in Nbrs(theNet, a), d \in Nbrs(theNet, b) :
              /\ ~DrawAgain(theNet, a, b, c, d)
              /\ Attempt(theNet, limit, a, b, c, d).expectConnected

\* lines 280-293: the inner loop has been left by such a draw
KeptDrawMade ==
    /\ pc = "test"
    /\ Attempt(theNet, limit, i, j, m, n).expectConnected

SwitchLiveNext == SwitchNext \/ SwTopMore

\* the calls of SwitchInit on networks of at most MaxLiveNodes nodes
SwitchLiveInit == SwitchInit /\ Cardinality(DOMAIN theNet) <= MaxLiveNodes

\* switchLinkPairEnds running for as long as its loops do: the call never stops
\* before it returns, and the generator, whose draws are independent and
\* uniform (lines 281-284), does not for ever avoid the draws that would end
\* the call when such draws stay possible
SpecSwitchLive ==
    /\ SwitchLiveInit /\ [][SwitchLiveNext]_vars
    /\ WF_vars(SwitchLiveNext)
    /\ SF_vars(SwDrawLegal \/ SwCertainBreak)
    /\ ([]<>KeptDrawPossible => []<>KeptDrawMade)

\* copyNet(from, to): to becomes a copy of from
copyNet(from) == from

\* line 441 with the result of the check ignored
NetDisconnectedNever(g) == FALSE

\* line 441
NetDisconnected(g) == ~ConnectivityCheck(g)

\* line 446
LimitStep == 5

\* line 446 raising the limit by one
IncreasedByOne(lim) == lim + 1

\* line 446
Increased(lim) == lim + LimitStep

\* lines 455 / 457 without the test limit > 1
DecreasedNoFloor(lim) == lim - 1

\* lines 455 / 457
Decreased(lim) == IF lim > 1 THEN lim - 1 ELSE lim

\* the cycle on 7 nodes: the smallest network on which a batch of randomize can
\* end disconnected (a triangle and a 4-cycle, limit 1) and the run still
\* completes after the rollback has raised limit to 6
RollbackNet == NetOf(7, CycleEdges(7), FALSE)

\* the connected networks randomize is run on
RandInputs ==
    {RollbackNet} \cup
    UNION {{NetOf(sz, PathEdges(sz), FALSE), NetOf(sz, CycleEdges(sz), FALSE)}
           \cup (IF sz >= 4 /\ sz <= SmallNodes
                 THEN {NetOf(sz, TadpoleEdges(sz), FALSE)} ELSE {})
           : sz \in 3 .. MaxRandNodes}

RandInit ==
    /\ theNet \in RandInputs
    /\ rounds \in 0 .. (IF Cardinality(DOMAIN theNet) <= SmallNodes THEN MaxRounds ELSE 1)
    /\ limit \in 1 .. Cardinality(DOMAIN theNet)
    /\ numLinks = numberOfEdges(theNet)
    /\ roundIdx = 0 /\ linkIdx = 0
    /\ backupNet = EmptyNet(Cardinality(DOMAIN theNet))
    /\ disconnectionFound = FALSE
    /\ inNet = theNet /\ inLimit = limit /\ preNet = theNet /\ mutating = 0
    /\ pc = "round"
    /\ i = NoDraw /\ j = NoDraw /\ m = NoDraw /\ n = NoDraw
    /\ tries = 0 /\ expectConnected = FALSE
    /\ paths1 = NoProbe /\ paths2 = NoProbe /\ steps = 0
    /\ ConfIdle /\ ConnIdle

rzLocals == <<i, j, m, n, tries, expectConnected, paths1, paths2, steps>>

\* lines 420-429: the backup of the round
RzBackup ==
    /\ pc = "round" /\ roundIdx < rounds
    /\ backupNet' = copyNet(theNet)
    /\ linkIdx' = 0
    /\ mutating' = 0
    /\ pc' = "batch"
    /\ UNCHANGED <<theNet, limit, rounds, roundIdx, numLinks, disconnectionFound,
                   rzLocals, confVars, inNet, inLimit, preNet, connVars>>

\* lines 430-432 with 278-330: one pass of the outer loop of the running call of
\* switchLinkPairEnds; the call returns when the pass ends with expectConnected
RzPass ==
    /\ pc = "batch" /\ linkIdx < numLinks
    /\ LimitAssert(netSize, limit)
    /\ \E a, b \in DOMAIN theNet :
          \E c \in Nbrs(theNet, a), d \in Nbrs(theNet, b) :
              /\ ~DrawAgain(theNet, a, b, c, d)
              /\ LET r == Attempt(theNet, limit, a, b, c, d)
                 IN  /\ theNet' = r.net
                     /\ linkIdx' = IF r.expectConnected THEN linkIdx + 1 ELSE linkIdx
    /\ mutating' = mutating + (IF theNet' # theNet THEN 1 ELSE 0)
    /\ UNCHANGED <<pc, limit, rounds, roundIdx, numLinks, backupNet, disconnectionFound,
                   rzLocals, confVars, inNet, inLimit, preNet, connVars>>

\* line 275 fails in a call of lines 430-432
RzAssertFail ==
    /\ pc = "batch" /\ linkIdx < numLinks
    /\ ~LimitAssert(netSize, limit)
    /\ pc' = "aborted"
    /\ UNCHANGED <<theNet, limit, randVars, rzLocals, confVars, histVars, connVars>>

\* lines 441-448: disconnected, the backup comes back and the batch is redone
RzRollback ==
    /\ pc = "batch" /\ ~(linkIdx < numLinks)
    /\ NetDisconnected(theNet)
    /\ theNet' = copyNet(backupNet)
    /\ limit' = Increased(limit)
    /\ disconnectionFound' = TRUE
    /\ linkIdx' = 0
    /\ mutating' = 0
    /\ UNCHANGED <<pc, rounds, roundIdx, numLinks, backupNet,
                   rzLocals, confVars, inNet, inLimit, preNet, connVars>>

\* lines 449-457, connected and no disconnection found so far
RzOkFirst ==
    /\ pc = "batch" /\ ~(linkIdx < numLinks)
    /\ ~NetDisconnected(theNet)
    /\ ~disconnectionFound
    /\ limit' = Decreased(limit)
    /\ roundIdx' = roundIdx + 1
    /\ pc' = "round"
    /\ UNCHANGED <<theNet, rounds, linkIdx, numLinks, backupNet, disconnectionFound,
                   rzLocals, confVars, histVars, connVars>>

\* lines 449-456, connected after a disconnection was found: generator.next(1.0) < 0.1
RzOkAfter ==
    /\ pc = "batch" /\ ~(linkIdx < numLinks)
    /\ ~NetDisconnected(theNet)
    /\ disconnectionFound
    /\ \E below \in BOOLEAN : limit' = IF below THEN Decreased(limit) ELSE limit
    /\ roundIdx' = roundIdx + 1
    /\ pc' = "round"
    /\ UNCHANGED <<theNet, rounds, linkIdx, numLinks, backupNet, disconnectionFound,
                   rzLocals, confVars, histVars, connVars>>

\* line 473
RzDone ==
    /\ pc = "round" /\ ~(roundIdx < rounds)
    /\ pc' = "done"
    /\ UNCHANGED <<theNet, limit, randVars, rzLocals, confVars, histVars, connVars>>

RandNext ==
    \/ RzBackup \/ RzPass \/ RzAssertFail
    \/ RzRollback \/ RzOkFirst \/ RzOkAfter \/ RzDone

SpecRandomize == RandInit /\ [][RandNext]_vars

\* ========================================================== switchConnections
\* line 226: the edge i-k goes into the temporary storage
Stored(tmp, g, a, k) == (k :> Edge(g, a, k)) @@ tmp

\* line 227: k.value() = 0 removes the edge i-k
Unlinked(g, a, k) == SetEdge(g, a, k, 0)

\* lines 232-235: the edge j-k moves to i-k, unless k is i
Copied(g, a, b, k) ==
    IF k # a THEN SetEdge(SetEdge(g, a, k, Edge(g, b, k)), b, k, 0) ELSE g

\* lines 242-244: the stored edge i-k becomes j-k, unless k is j
Restored(g, tmp, b, k) ==
    IF k # b THEN SetEdge(g, b, k, tmp[k]) ELSE g

ConnInit ==
    /\ theNet \in ConfInputs
    /\ i = NoDraw /\ j = NoDraw
    /\ tmp_nodes = <<>> /\ kLeft = {}
    /\ inNet = theNet /\ inLimit = 0 /\ preNet = theNet /\ mutating = 0
    /\ pc = "choose"
    /\ limit = 0 /\ m = NoDraw /\ n = NoDraw /\ tries = 0 /\ expectConnected = FALSE
    /\ paths1 = NoProbe /\ paths2 = NoProbe /\ steps = 0
    /\ ConfIdle /\ RandIdle

connFrame == <<limit, m, n, tries, expectConnected, paths1, paths2, steps,
               confVars, randVars, histVars>>

\* lines 215-218, i == j: the nodes are drawn again
ScChooseAgain ==
    /\ pc = "choose"
    /\ \E a \in DOMAIN theNet : i' = a /\ j' = a
    /\ UNCHANGED <<theNet, pc, tmp_nodes, kLeft, connFrame>>

\* lines 215-225: two distinct nodes are drawn, the loop over the edges of i begins
ScChoose ==
    /\ pc = "choose"
    /\ \E a, b \in DOMAIN theNet :
          /\ a # b
          /\ i' = a /\ j' = b
          /\ kLeft' = Nbrs(theNet, a)
    /\ pc' = "store"
    /\ UNCHANGED <<theNet, tmp_nodes, connFrame>>

\* lines 225-228, one edge of i
ScStore ==
    /\ pc = "store"
    /\ \E k \in kLeft :
          /\ tmp_nodes' = Stored(tmp_nodes, theNet, i, k)
          /\ theNet' = Unlinked(theNet, i, k)
          /\ kLeft' = kLeft \ {k}
    /\ UNCHANGED <<pc, i, j, connFrame>>

\* lines 228-231: the loop over the edges of j begins
ScStoreEnd ==
    /\ pc = "store" /\ kLeft = {}
    /\ kLeft' = Nbrs(theNet, j)
    /\ pc' = "copy"
    /\ UNCHANGED <<theNet, i, j, tmp_nodes, connFrame>>

\* lines 231-236, one edge of j
ScCopy ==
    /\ pc = "copy"
    /\ \E k \in kLeft :
          /\ theNet' = Copied(theNet, i, j, k)
          /\ kLeft' = kLeft \ {k}
    /\ UNCHANGED <<pc, i, j, tmp_nodes, connFrame>>

\* lines 236-241: the loop over the stored edges begins
ScCopyEnd ==
    /\ pc = "copy" /\ kLeft = {}
    /\ kLeft' = DOMAIN tmp_nodes
    /\ pc' = "restore"
    /\ UNCHANGED <<theNet, i, j, tmp_nodes, connFrame>>

\* lines 241-245, one stored edge
ScRestore ==
    /\ pc = "restore"
    /\ \E k \in kLeft :
          /\ theNet' = Restored(theNet, tmp_nodes, j, k)
          /\ kLeft' = kLeft \ {k}
    /\ UNCHANGED <<pc, i, j, tmp_nodes, connFrame>>

\* lines 245-247
ScReturn ==
    /\ pc = "restore" /\ kLeft = {}
    /\ pc' = "switched"
    /\ UNCHANGED <<theNet, i, j, tmp_nodes, kLeft, connFrame>>

ConnNext ==
    \/ ScChooseAgain \/ ScChoose \/ ScStore \/ ScStoreEnd
    \/ ScCopy \/ ScCopyEnd \/ ScRestore \/ ScReturn

SpecConnections == ConnInit /\ [][ConnNext]_vars

\* ==================================================== claims: confModelSimple

\* every two edges of g share an endpoint (the triangle, the stars)
AllEdgesShare(g) ==
    \A e, f \in EdgeSet(g) :
        e = f \/ e[1] = f[1] \/ e[1] = f[2] \/ e[2] = f[1] \/ e[2] = f[2]

\* C2: in confModelSimple the degree of every node before the run, after each
\* attempt of the loop and at return equals its degree in the input network.
TheoremC2 ==
    pc \in {"attempt", "returned"} =>
        \A u \in DOMAIN theNet :
            Cardinality({v \in DOMAIN theNet : theNet[u][v] # 0})
              = Cardinality({v \in DOMAIN inNet : inNet[u][v] # 0})

\* a run that returned after a swap changed the network
WitnessC2 == pc = "returned" /\ successfullRounds >= 1 /\ theNet # inNet

\* C3: during confModelSimple the network is a simple graph in every state,
\* also between the four edge writes of an accepted swap: no node is adjacent
\* to itself, adjacency is symmetric, and each of the two writes that create an
\* edge targets a pair of distinct nodes that holds no edge.
TheoremC3 ==
    /\ \A u \in DOMAIN theNet : theNet[u][u] = 0
    /\ \A u, v \in DOMAIN theNet : theNet[u][v] = theNet[v][u]
    /\ pc = "add1" => edge1[1] # edge2[2] /\ theNet[edge1[1]][edge2[2]] = 0
    /\ pc = "add2" => edge1[2] # edge2[1] /\ theNet[edge1[2]][edge2[1]] = 0

\* between the writes of a swap: both new edges written, no old edge zeroed yet
WitnessC3 ==
    /\ pc = "remove1"
    /\ theNet[edge1[1]][edge2[2]] # 0 /\ theNet[edge1[2]][edge2[1]] # 0
    /\ theNet[edge1[1]][edge1[2]] # 0 /\ theNet[edge2[1]][edge2[2]] # 0

\* the draw recorded in the locals is one the code rejects
DrawRejected ==
    \/ edgeIndex1 = edgeIndex2
    \/ edge1[1] = edge2[1] \/ edge1[1] = edge2[2]
    \/ edge1[2] = edge2[1] \/ edge1[2] = edge2[2]
    \/ theNet[edge1[1]][edge2[2]] # 0
    \/ theNet[edge1[2]][edge2[1]] # 0

\* C9: an attempt of confModelSimple whose draw is rejected (equal indices, a
\* shared endpoint, or an existing candidate edge) leaves the network, the edge
\* list and the accepted-count unchanged and consumes one attempt; at return
\* the result is the number of attempts that changed the network and lies in
\* 0..repeats.
StepC9 ==
    /\ (pc = "attempt" /\ round < repeats /\ DrawRejected') =>
          /\ theNet' = theNet /\ edgeList' = edgeList
          /\ successfullRounds' = successfullRounds
          /\ round' = round + 1 /\ pc' = "attempt"
    /\ pc' = "returned" =>
          /\ successfullRounds' = mutating'
          /\ 0 <= successfullRounds' /\ successfullRounds' <= repeats'
          /\ round' = repeats'

TheoremC9 == [][StepC9]_vars

\* a returned run in which some attempts were accepted and the last was rejected
WitnessC9 ==
    /\ pc = "returned" /\ 0 < successfullRounds /\ successfullRounds < repeats
    /\ order = NoDraw /\ edgeIndex1 # edgeIndex2

\* C10: on a network in which every two edges share an endpoint (the triangle,
\* a star) confModelSimple never changes the network and its accepted-count
\* stays 0, for every repeats and every sequence of draws.
TheoremC10 ==
    AllEdgesShare(inNet) =>
        /\ theNet = inNet /\ successfullRounds = 0
        /\ pc \in {"attempt", "returned"}

\* the triangle, returned after at least two attempts
WitnessC10 ==
    /\ pc = "returned" /\ repeats >= 2
    /\ DOMAIN inNet = 0 .. 2 /\ numberOfEdges(inNet) = 3
    /\ successfullRounds = 0 /\ theNet = inNet

\* ================================================= claims: switchLinkPairEnds

\* the unordered pair u-v is the pair a-b
SamePair(u, v, a, b) == (u = a /\ v = b) \/ (u = b /\ v = a)

\* C4: when switchLinkPairEnds returns, the network differs from the network at
\* entry by exactly the switch of the last draw: i-m and j-n, edges at entry, are
\* gone; i-n and j-m, no edges at entry, carry the entry weights of i-m and j-n;
\* every other pair is as at entry; the number of edges and every degree are
\* unchanged. Nothing is left of the passes that failed before.
TheoremC4 ==
    pc = "returned" =>
        /\ inNet[i][m] # 0 /\ inNet[j][n] # 0
        /\ inNet[i][n] = 0 /\ inNet[j][m] = 0
        /\ \A u, v \in DOMAIN theNet :
              theNet[u][v] =
                  IF SamePair(u, v, i, m) \/ SamePair(u, v, j, n) THEN 0
                  ELSE IF SamePair(u, v, i, n) THEN inNet[i][m]
                  ELSE IF SamePair(u, v, j, m) THEN inNet[j][n]
                  ELSE inNet[u][v]
        /\ Cardinality({e \in (DOMAIN theNet) \X (DOMAIN theNet) : theNet[e[1]][e[2]] # 0})
             = Cardinality({e \in (DOMAIN inNet) \X (DOMAIN inNet) : inNet[e[1]][e[2]] # 0})
        /\ \A u \in DOMAIN theNet :
              Cardinality({v \in DOMAIN theNet : theNet[u][v] # 0})
                = Cardinality({v \in DOMAIN inNet : inNet[u][v] # 0})

\* a call that returned on its second pass, the first having been reversed
WitnessC4 == pc = "returned" /\ tries = 2 /\ preNet = inNet /\ theNet # inNet

\* C5: when a performed switch has been reversed because a probe finished, the
\* network is the network from before that switch, weights included (and the
\* switch had changed it).
TheoremC5 ==
    /\ (pc = "while" /\ ~expectConnected) => theNet = preNet
    /\ pc \in {"probe", "reverse2", "reverse3", "reverse4"} => theNet # preNet

\* a reversal made because a probe ran out of nodes before it had seen the whole
\* network: the switch had cut the network in two
WitnessC5 ==
    /\ pc = "while" /\ ~expectConnected /\ tries = 1
    /\ (paths1.done \/ paths2.done) /\ steps < Cardinality(DOMAIN theNet)
    /\ theNet = preNet

\* C6 as stated: on a star the call returns, with every degree as at entry.
OriginalC6 ==
    (IsStar(inNet) /\ pc = "top" /\ tries = 0) ~>
        (pc = "returned" /\ DegreesEqual(theNet, inNet))

\* C6, what the code does instead: on a star no draw leaves the inner loop of
\* switchLinkPairEnds (two edges of a star always share the centre), so the
\* call stays in its first pass, tries is at most 1, and the network is never
\* written.
StarNeverLeavesDraw ==
    (\E c \in DOMAIN inNet : \A u, v \in DOMAIN inNet :
         (inNet[u][v] # 0) <=> (u # v /\ (u = c \/ v = c)))
      => /\ pc \in {"top", "draw"}
         /\ tries <= 1
         /\ theNet = inNet

\* a star on which a draw was made and thrown away
WitnessC6 ==
    /\ IsStar(inNet) /\ Cardinality(DOMAIN inNet) >= 5
    /\ pc = "draw" /\ tries = 1 /\ i # NoDraw /\ Degree(theNet, i) = 1 /\ m = j

\* ========================================================== claims: randomize

\* C1: when randomize has completed, the network passes the exact connectivity
\* check and every node has the degree it had in the input network.
TheoremC1 ==
    pc = "done" =>
        /\ ConnectivityCheck(theNet)
        /\ \A u \in DOMAIN theNet :
              Cardinality({v \in DOMAIN theNet : theNet[u][v] # 0})
                = Cardinality({v \in DOMAIN inNet : inNet[u][v] # 0})

\* a completed run in which a batch had ended disconnected and was rolled back
WitnessC1 == pc = "done" /\ disconnectionFound /\ theNet # inNet

\* the scenario of C8: the 4-cycle 0-1-2-3-0, one round, limit 1
CycleScenario ==
    /\ DOMAIN inNet = 0 .. 3
    /\ \A u, v \in 0 .. 3 :
          (inNet[u][v] # 0) <=> ((v - u) \in {1, -1, 3, -3})
    /\ rounds = 1 /\ inLimit = 1

\* g is a cycle through all 4 nodes
FourCycle(g) ==
    /\ DOMAIN g = 0 .. 3
    /\ \A u \in DOMAIN g : g[u][u] = 0 /\ Cardinality({v \in DOMAIN g : g[u][v] # 0}) = 2
    /\ \A u, v \in DOMAIN g : g[u][v] = g[v][u]
    /\ ConnectivityCheck(g)

\* C8: from the 4-cycle with rounds = 1 and limit = 1, every network randomize
\* reaches is a 4-cycle, no connectivity check fails (no rollback, no abort),
\* limit stays 1, and while the round is running some draw lets the running
\* call return; so the run completes with a connected network in which every
\* node has degree 2.
TheoremC8 ==
    CycleScenario =>
        /\ FourCycle(theNet)
        /\ ~disconnectionFound /\ pc # "aborted" /\ limit = 1
        /\ pc = "batch" => linkIdx <= numLinks /\ backupNet = inNet
        /\ (pc = "batch" /\ linkIdx < numLinks) =>
              \E a, b \in DOMAIN theNet :
                  \E c \in Nbrs(theNet, a), d \in Nbrs(theNet, b) :
                      /\ ~DrawAgain(theNet, a, b, c, d)
                      /\ Attempt(theNet, limit, a, b, c, d).expectConnected

\* the scenario completed on a 4-cycle other than the input
WitnessC8 == CycleScenario /\ pc = "done" /\ roundIdx = 1 /\ theNet # inNet

\* ============================================ claims: confModelSimple, part 2

\* C11 as stated: equal indices are drawn again until they differ, so no attempt
\* of the loop ends having drawn the same index twice.
OriginalC11 ==
    (pc \in {"attempt", "returned"} /\ round > 0) => edgeIndex1 # edgeIndex2

\* C11, amended: when the two drawn indices are equal nothing is drawn again;
\* the attempt ends there, it uses up one of the repeats attempts (round grows
\* by one) and the network, the edge list and the accepted-count stay as they
\* were.
TheoremC11 ==
    [][(pc = "attempt" /\ edgeIndex1' = edgeIndex2' /\ edgeIndex1' # edgeIndex1)
         => /\ round' = round + 1
            /\ pc' = "attempt"
            /\ theNet' = theNet /\ edgeList' = edgeList
            /\ successfullRounds' = successfullRounds]_vars

\* a run of two attempts that returned 0 because both drew equal indices
WitnessC11 ==
    /\ pc = "returned" /\ repeats = 2 /\ round = 2
    /\ edgeIndex1 = edgeIndex2 /\ edgeIndex1 # NoDraw
    /\ successfullRounds = 0 /\ ~AllEdgesShare(inNet)

\* C15: between the attempts of confModelSimple and at its return the edge
\* list agrees with the network: it has as many entries as the input network
\* has edges, every entry is a pair of distinct nodes joined by an edge, and
\* every edge of the network is in exactly one entry, in either orientation.
TheoremC15 ==
    pc \in {"attempt", "returned"} =>
        /\ Len(edgeList) =
              Cardinality({e \in (DOMAIN inNet) \X (DOMAIN inNet) :
                              e[1] < e[2] /\ inNet[e[1]][e[2]] # 0})
        /\ \A x \in 1 .. Len(edgeList) :
              /\ edgeList[x][1] # edgeList[x][2]
              /\ theNet[edgeList[x][1]][edgeList[x][2]] # 0
        /\ \A u, v \in DOMAIN theNet :
              (u < v /\ theNet[u][v] # 0) =>
                  Cardinality({x \in 1 .. Len(edgeList) :
                                  edgeList[x] = <<u, v>> \/ edgeList[x] = <<v, u>>}) = 1

\* after two accepted swaps the list is no longer in the built order, and an
\* entry has its larger node first
WitnessC15 ==
    /\ pc = "attempt" /\ successfullRounds = 2
    /\ \E x \in 1 .. Len(edgeList) : edgeList[x][1] > edgeList[x][2]
    /\ edgeList # BuildEdgeList(theNet)

\* the number of edges of g that carry the weight w
WeightCount(g, w) ==
    Cardinality({e \in (DOMAIN g) \X (DOMAIN g) : e[1] < e[2] /\ g[e[1]][e[2]] = w})

\* C19: an accepted swap of confModelSimple gives the two new edges
\* (edge1.first, edge2.second) and (edge1.second, edge2.first) the weights of
\* the two removed edges, each weight once, in one of the two orders; the
\* removed edges are zeroed and no other pair changes; so between attempts the
\* network carries every weight as often as the input network did.
TheoremC19 ==
    pc \in {"attempt", "returned"} =>
        /\ \A u, v \in DOMAIN theNet :
              /\ theNet[u][v] # 0 => WeightCount(theNet, theNet[u][v])
                                        = WeightCount(inNet, theNet[u][v])
              /\ inNet[u][v] # 0 => WeightCount(theNet, inNet[u][v])
                                       = WeightCount(inNet, inNet[u][v])
        /\ order # NoDraw =>
              LET w1 == preNet[edge1[1]][edge1[2]]
                  w2 == preNet[edge2[1]][edge2[2]]
                  n1 == theNet[edge1[1]][edge2[2]]
                  n2 == theNet[edge1[2]][edge2[1]]
              IN  /\ w1 # 0 /\ w2 # 0
                  /\ (n1 = w1 /\ n2 = w2) \/ (n1 = w2 /\ n2 = w1)
                  /\ order = 0 => n1 = w1
                  /\ order = 1 => n1 = w2
                  /\ theNet[edge1[1]][edge1[2]] = 0 /\ theNet[edge2[1]][edge2[2]] = 0
                  /\ preNet[edge1[1]][edge2[2]] = 0 /\ preNet[edge1[2]][edge2[1]] = 0
                  /\ \A u, v \in DOMAIN theNet :
                        ({u, v} \notin {{edge1[1], edge1[2]}, {edge2[1], edge2[2]},
                                        {edge1[1], edge2[2]}, {edge1[2], edge2[1]}})
                          => theNet[u][v] = preNet[u][v]

\* an accepted swap of two edges of different weights in the crossed order
WitnessC19 ==
    /\ pc = "attempt" /\ order = 1
    /\ preNet[edge1[1]][edge1[2]] # preNet[edge2[1]][edge2[2]]
    /\ theNet[edge1[1]][edge2[2]] = preNet[edge2[1]][edge2[2]]
    /\ theNet[edge1[2]][edge2[1]] = preNet[edge1[1]][edge1[2]]

\* ========================================= claims: switchLinkPairEnds, part 2

\* C16: a draw that leaves the inner loop of switchLinkPairEnds has four
\* pairwise distinct nodes i, j, m, n with i-m and j-n edges and i-n and j-m
\* not edges; no node is ever adjacent to itself, and each write of a switch or
\* of its reversal that creates an edge targets a pair that holds none.
TheoremC16 ==
    /\ \A u \in DOMAIN theNet : theNet[u][u] = 0
    /\ \A u, v \in DOMAIN theNet : theNet[u][v] = theNet[v][u]
    /\ pc \in {"test", "add2", "remove1", "remove2", "probe",
                "reverse2", "reverse3", "reverse4"}
          => Cardinality({i, j, m, n}) = 4
    /\ pc = "test" => /\ theNet[i][m] # 0 /\ theNet[j][n] # 0
                      /\ theNet[i][n] = 0 /\ theNet[j][m] = 0
    /\ pc = "add2" => theNet[j][m] = 0
    /\ pc = "probe" => theNet[i][m] = 0
    /\ pc = "reverse2" => theNet[j][n] = 0

\* in the middle of a reversal: both old edges are back, both new edges still there
WitnessC16 ==
    /\ pc = "reverse3" /\ tries = 1
    /\ theNet[i][m] # 0 /\ theNet[j][n] # 0
    /\ theNet[i][n] # 0 /\ theNet[j][m] # 0

\* the draw i, j, m, n is one that lines 290-291 short-circuit
ShortCircuited ==
    LET deg(u) == Cardinality({v \in DOMAIN theNet : theNet[u][v] # 0})
    IN  (deg(i) = 1 /\ deg(n) = 1) \/ (deg(j) = 1 /\ deg(m) = 1)

\* C17: a kept draw with degree(i) = degree(n) = 1 or degree(j) = degree(m) = 1
\* ends the pass without a write to the network, as a failed pass of the same
\* try count; and on a connected network the switch of such a draw would have
\* left the network disconnected.
TheoremC17 ==
    /\ [][(pc = "test" /\ ShortCircuited)
            => /\ theNet' = theNet /\ tries' = tries
               /\ ~expectConnected' /\ pc' = "while"]_vars
    /\ []((pc = "test" /\ ShortCircuited /\ Reach(theNet, 0) = DOMAIN theNet)
            => Reach(Switched(theNet, i, j, m, n), 0) # DOMAIN theNet)

\* a first pass that was short-circuited
WitnessC17 ==
    /\ pc = "while" /\ ~expectConnected /\ tries = 1
    /\ paths1 = NoProbe /\ i # NoDraw /\ theNet = inNet
    /\ ShortCircuited

\* the network at entry admits a structurally legal switch whose result is
\* connected
SafeSwitchExists ==
    \E a, b, c, d \in DOMAIN inNet :
        /\ inNet[a][c] # 0 /\ inNet[b][d] # 0
        /\ a # b /\ c # d /\ c # b /\ d # a
        /\ inNet[a][d] = 0 /\ inNet[b][c] = 0
        /\ Reach(Switched(inNet, a, b, c, d), 0) = DOMAIN inNet

\* C18 as stated: a call on a connected network that admits a legal switch
\* with a connected result eventually returns, for every limit in 1..node count.
OriginalC18 ==
    (pc = "top" /\ tries = 0 /\ SafeSwitchExists) ~> (pc = "returned")

\* C18, what the code does: with limit below the node count such a call
\* returns; with limit equal to the node count no call on a connected network
\* ever returns, because each probe then exhausts the whole network and every
\* performed switch is reversed.
ReturnsBelowNodeCount ==
    /\ (pc = "top" /\ tries = 0 /\ SafeSwitchExists
           /\ limit < Cardinality(DOMAIN inNet)) ~> (pc = "returned")
    /\ [](limit = Cardinality(DOMAIN inNet) => pc # "returned")

\* a connected switch, on a network that admits it, reversed in a call with
\* limit equal to the node count
WitnessC18 ==
    /\ pc = "reverse2" /\ limit = Cardinality(DOMAIN theNet)
    /\ SafeSwitchExists
    /\ Reach(theNet, 0) = DOMAIN theNet
    /\ paths1.done /\ paths2.done

\* ================================================== claims: randomize, part 2

\* C12 as stated: whenever randomize is about to call switchLinkPairEnds, the
\* limit it passes satisfies 0 < limit <= node count, so the assertion at the
\* entry of switchLinkPairEnds never fails.
OriginalC12 ==
    /\ pc # "aborted"
    /\ (pc = "batch" /\ linkIdx < numLinks) =>
           (0 < limit /\ limit <= Cardinality(DOMAIN theNet))

\* a run stopped by the assertion in the first call after a rollback
WitnessC12 ==
    /\ pc = "aborted" /\ limit > Cardinality(DOMAIN theNet)
    /\ limit = inLimit + 5 /\ theNet = backupNet /\ linkIdx = 0

OriginalC20 ==
    pc = "switched" =>
        /\ \A k \in DOMAIN theNet \ {i, j} :
              theNet[i][k] = inNet[j][k] /\ theNet[j][k] = inNet[i][k]
        /\ \A u, v \in DOMAIN theNet \ {i, j} : theNet[u][v] = inNet[u][v]
        /\ \A u \in DOMAIN theNet : theNet[u][u] = 0
        /\ Cardinality({e \in (DOMAIN theNet) \X (DOMAIN theNet) :
                            e[1] < e[2] /\ theNet[e[1]][e[2]] # 0})
             = Cardinality({e \in (DOMAIN inNet) \X (DOMAIN inNet) :
                              e[1] < e[2] /\ inNet[e[1]][e[2]] # 0})

\* C20, what the code does: the connections to third nodes are exchanged with
\* their weights and the other pairs are unchanged, but an edge between i and
\* j is removed by line 227 and never written back, so the number of edges
\* drops by one when i and j were adjacent.
ExchangeC20 ==
    pc = "switched" =>
        /\ \A k \in DOMAIN theNet \ {i, j} :
              theNet[i][k] = inNet[j][k] /\ theNet[j][k] = inNet[i][k]
        /\ \A u, v \in DOMAIN theNet \ {i, j} : theNet[u][v] = inNet[u][v]
        /\ \A u \in DOMAIN theNet : theNet[u][u] = 0
        /\ theNet[i][j] = 0
        /\ Cardinality({e \in (DOMAIN theNet) \X (DOMAIN theNet) :
                            e[1] < e[2] /\ theNet[e[1]][e[2]] # 0})
             = Cardinality({e \in (DOMAIN inNet) \X (DOMAIN inNet) :
                              e[1] < e[2] /\ inNet[e[1]][e[2]] # 0})
               - (IF inNet[i][j] # 0 THEN 1 ELSE 0)

\* a call that drew two adjacent nodes and returned without their edge
WitnessC20 ==
    /\ pc = "switched" /\ inNet[i][j] # 0 /\ theNet[i][j] = 0
    /\ DOMAIN tmp_nodes # {j}

=============================================================================
